---- MODULE Spec2Model ----
(***************************************************************************)
(* rerunsrv: the shell-history search server of src/main.go.               *)
(*                                                                         *)
(* A Go string is modelled as the sequence of its characters, each a       *)
(* one-character TLA+ string: "a b" is <<"a", " ", "b">>.  A Go slice of   *)
(* strings held by value is a sequence; the slice internalRequest.cmds,    *)
(* which shares its backing array with Server.cmds or Server.lowerCmds,    *)
(* is a slice header [arr, len] into that array.                           *)
(***************************************************************************)
EXTENDS Integers, Sequences, FiniteSets, TLC

VARIABLES
    hist,         \* the []history.Command handed to newServer
    phase,        \* "boot" before newServer has run, "serving" after
    cmds,         \* Server.cmds (backing array)
    lowerCmds,    \* Server.lowerCmds (backing array)
    restoreCase,  \* Server.restoreCase
    constructed,  \* the three Server fields as newServer returned them
    pc,           \* per caller: "idle", "scan", "done", "panic", "fault"
    request,      \* per caller: the *Request of the running search
    ir,           \* per caller: the internalRequest of the running search
    idx,          \* per caller: index into searchers of the next searcher
    results,      \* per caller: search's local results
    seen,         \* per caller: search's local seen
    invoked,      \* per caller: the searchers called so far, in call order
    haystack,     \* matchSlices on its own: its arguments and its result
    needles,
    fn,
    matched       \* <<>> before the call, <<result>> after

vars == <<hist, phase, cmds, lowerCmds, restoreCase, constructed, pc, request,
          ir, idx, results, seen, invoked, haystack, needles, fn, matched>>

srvVars == <<hist, phase, cmds, lowerCmds, restoreCase, constructed>>
callVars == <<pc, request, ir, idx, results, seen, invoked>>
matchVars == <<haystack, needles, fn, matched>>

(***************************************************************************)
(* Bounds of the model.                                                    *)
(***************************************************************************)
MaxHist == 3          \* records in the history handed to newServer
MaxMaxResults == 3    \* max_results ranges over -1 .. MaxMaxResults
MaxHaystack == 3      \* matchSlices harness: haystack length
MaxNeedles == 3       \* matchSlices harness: needles length
MaxConcHist == 2      \* records in the history of the concurrent runs

Callers == {1, 2}

Min(a, b) == IF a < b THEN a ELSE b

Range(s) == {s[i] : i \in 1..Len(s)}

RECURSIVE SeqsUpTo(_, _)
SeqsUpTo(S, n) ==
    IF n = 0 THEN {<<>>}
    ELSE LET shorter == SeqsUpTo(S, n - 1)
         IN  shorter \cup {Append(s, x) : s \in shorter, x \in S}

(***************************************************************************)
(* The strings package, as far as main.go uses it.                         *)
(***************************************************************************)
HasPrefix(s, prefix) ==
    Len(s) >= Len(prefix) /\ SubSeq(s, 1, Len(prefix)) = prefix

Contains(s, substr) ==
    \E i \in 0..(Len(s) - Len(substr)) : SubSeq(s, i + 1, i + Len(substr)) = substr

RECURSIVE TrimRight(_, _)
TrimRight(s, cutset) ==
    IF s # <<>> /\ s[Len(s)] \in cutset
    THEN TrimRight(SubSeq(s, 1, Len(s) - 1), cutset)
    ELSE s

LowerChar(c) ==
    CASE c = "A" -> "a"
      [] c = "B" -> "b"
      [] OTHER -> c

ToLower(s) == [i \in 1..Len(s) |-> LowerChar(s[i])]

IsSpace(c) == c \in {" ", "\t", "\n", "\r"}

\* strings.Fields: the maximal runs of non-space characters, in order.
RECURSIVE FieldsFrom(_, _, _, _)
FieldsFrom(s, i, word, acc) ==
    IF i > Len(s)
    THEN IF word = <<>> THEN acc ELSE Append(acc, word)
    ELSE IF IsSpace(s[i])
         THEN FieldsFrom(s, i + 1, <<>>, IF word = <<>> THEN acc ELSE Append(acc, word))
         ELSE FieldsFrom(s, i + 1, Append(word, s[i]), acc)

Fields(s) == FieldsFrom(s, 1, <<>>, <<>>)

\* var eliminateSpaces = strings.NewReplacer(" ", "")
eliminateSpaces(s) == SelectSeq(s, LAMBDA c : c # " ")

\* A func(a, b string) bool value: one of the two library predicates main.go
\* passes, or an arbitrary predicate given as the set of pairs it holds on.
Apply(f, a, b) ==
    CASE f.kind = "HasPrefix" -> HasPrefix(a, b)
      [] f.kind = "Contains" -> Contains(a, b)
      [] OTHER -> <<a, b>> \in f.pairs

stringsHasPrefix == [kind |-> "HasPrefix"]
stringsContains == [kind |-> "Contains"]

(***************************************************************************)
(* newServer                                                               *)
(***************************************************************************)
normalize(cmd) == TrimRight(cmd, {";", "\\", " ", "\t", "\n", "\r"})

Reverse(s) == [i \in 1..Len(s) |-> s[Len(s) + 1 - i]]

\* The first loop of newServer, over the reversed history.
RECURSIVE extractLoop(_, _, _, _)
extractLoop(h, i, seenCmds, out) ==
    IF i > Len(h) THEN out
    ELSE LET cmd == normalize(h[i].Command)
         IN  IF cmd \in seenCmds
             THEN extractLoop(h, i + 1, seenCmds, out)
             ELSE extractLoop(h, i + 1, seenCmds \cup {cmd}, Append(out, cmd))

\* The loop without the slices.Reverse of line 104.
extractCmdsNoReverse(h) == extractLoop(h, 1, {}, <<>>)

extractCmds(h) == extractLoop(Reverse(h), 1, {}, <<>>)

lowerCmdsOf(cs) == [i \in 1..Len(cs) |-> ToLower(cs[i])]

\* A Go map: a function on its keys; a missing key reads as the nil slice.
Lookup(m, k) == IF k \in DOMAIN m THEN m[k] ELSE <<>>

Put(m, k, v) == [x \in (DOMAIN m) \cup {k} |-> IF x = k THEN v ELSE m[x]]

RECURSIVE restoreLoop(_, _, _)
restoreLoop(cs, i, m) ==
    IF i > Len(cs) THEN m
    ELSE LET lower == ToLower(cs[i])
         IN  restoreLoop(cs, i + 1, Put(m, lower, Append(Lookup(m, lower), cs[i])))

\* The map keyed by cmd instead of lower.
restoreCaseKeyedByCmd(cs) == [c \in Range(cs) |-> <<c>>]

restoreCaseOf(cs) == restoreLoop(cs, 1, <<>>)

(***************************************************************************)
(* matchSlices                                                             *)
(***************************************************************************)
\* The inner for loop: the first i at or after the cursor (0-based) with
\* fn(haystack[i], needle), or len(haystack) when there is none.
RECURSIVE scanFrom(_, _, _, _)
scanFrom(hay, needle, f, i) ==
    IF i < Len(hay) /\ ~Apply(f, hay[i + 1], needle)
    THEN scanFrom(hay, needle, f, i + 1)
    ELSE i

\* The outer loop over needles[j..], with the cursor at i.
RECURSIVE matchLoop(_, _, _, _, _)
matchLoop(hay, ns, f, j, i) ==
    IF j > Len(ns) THEN TRUE
    ELSE LET k == scanFrom(hay, ns[j], f, i)
         IN  IF k = Len(hay) THEN FALSE
             ELSE matchLoop(hay, ns, f, j + 1, k + 1)

\* The outer loop with the i++ of line 297 left out.
RECURSIVE matchLoopNoAdvance(_, _, _, _, _)
matchLoopNoAdvance(hay, ns, f, j, i) ==
    IF j > Len(ns) THEN TRUE
    ELSE LET k == scanFrom(hay, ns[j], f, i)
         IN  IF k = Len(hay) THEN FALSE
             ELSE matchLoopNoAdvance(hay, ns, f, j + 1, k)

matchSlicesNoAdvance(hay, ns, f) ==
    IF Len(ns) > Len(hay) THEN FALSE
    ELSE IF Len(ns) = 0 THEN TRUE
    ELSE matchLoopNoAdvance(hay, ns, f, 1, 0)

matchSlices(hay, ns, f) ==
    IF Len(ns) > Len(hay) THEN FALSE
    ELSE IF Len(ns) = 0 THEN TRUE
    ELSE matchLoop(hay, ns, f, 1, 0)

(***************************************************************************)
(* The searchers.  Each takes the internalRequest req, with req.cmds the   *)
(* contents of the slice, and gives [panic, ret, cmds]: whether the call   *)
(* panics, the slice it returns, and req.cmds as the call leaves it.       *)
(***************************************************************************)
Returns(ret, req) == [panic |-> FALSE, ret |-> ret, cmds |-> req.cmds]

Panics(req) == [panic |-> TRUE, ret |-> <<>>, cmds |-> req.cmds]

recent(req) ==
    IF req.query # <<>> THEN Returns(<<>>, req)
    ELSE IF Len(req.cmds) > req.maxResults
         THEN IF req.maxResults < 0
              THEN Panics(req)   \* req.cmds[:req.maxResults], slice bounds out of range
              ELSE LET cut == SubSeq(req.cmds, 1, req.maxResults)
                   IN  [panic |-> FALSE, ret |-> cut, cmds |-> cut]
         ELSE Returns(req.cmds, req)

RECURSIVE singleLoop(_, _, _, _)
singleLoop(req, f, i, out) ==
    IF i > Len(req.cmds) THEN out
    ELSE IF Apply(f, req.cmds[i], req.query)
         THEN LET more == Append(out, req.cmds[i])
              IN  IF Len(more) >= req.maxResults THEN more
                  ELSE singleLoop(req, f, i + 1, more)
         ELSE singleLoop(req, f, i + 1, out)

singleMatch(req, f) ==
    IF Min(Len(req.cmds), req.maxResults) < 0
    THEN Panics(req)   \* make([]string, 0, n) with n < 0
    ELSE Returns(singleLoop(req, f, 1, <<>>), req)

prefixMatch(req) == singleMatch(req, stringsHasPrefix)

substringMatch(req) == singleMatch(req, stringsContains)

RECURSIVE multiLoop(_, _, _, _, _)
multiLoop(req, ns, f, i, out) ==
    IF i > Len(req.cmds) THEN out
    ELSE IF matchSlices(Fields(req.cmds[i]), ns, f)
         THEN LET more == Append(out, req.cmds[i])
              IN  IF Len(more) >= req.maxResults THEN more
                  ELSE multiLoop(req, ns, f, i + 1, more)
         ELSE multiLoop(req, ns, f, i + 1, out)

multiMatch(req, ns, f) ==
    IF Min(Len(req.cmds), req.maxResults) < 0
    THEN Panics(req)   \* make([]string, 0, n) with n < 0
    ELSE Returns(multiLoop(req, ns, f, 1, <<>>), req)

multiPrefixMatch(req) == multiMatch(req, Fields(req.query), stringsHasPrefix)

multiSubstringMatch(req) == multiMatch(req, Fields(req.query), stringsContains)

\* One needle per character of the query.
anchoredPrefixMatch(req) ==
    multiMatch(req, [i \in 1..Len(req.query) |-> <<req.query[i]>>], stringsHasPrefix)

(***************************************************************************)
(* fuzzyMatch.  fuzzy.RankFind is the library github.com/lithammer/        *)
(* fuzzysearch: a target matches when the source's characters occur in it  *)
(* in order, and its Distance is the Levenshtein distance, which for a     *)
(* source that is a subsequence of the target is the difference of the     *)
(* lengths.                                                                *)
(***************************************************************************)
RECURSIVE isSubsequence(_, _, _, _)
isSubsequence(source, target, i, j) ==
    IF i > Len(source) THEN TRUE
    ELSE IF j > Len(target) THEN FALSE
    ELSE IF source[i] = target[j] THEN isSubsequence(source, target, i + 1, j + 1)
    ELSE isSubsequence(source, target, i, j + 1)

fuzzyMatches(source, target) ==
    /\ Len(target) >= Len(source)
    /\ isSubsequence(source, target, 1, 1)

RECURSIVE rankLoop(_, _, _, _)
rankLoop(source, targets, i, out) ==
    IF i > Len(targets) THEN out
    ELSE IF fuzzyMatches(source, targets[i])
         THEN rankLoop(source, targets, i + 1,
                       Append(out, [Target |-> targets[i],
                                    Distance |-> Len(targets[i]) - Len(source),
                                    OriginalIndex |-> i - 1]))
         ELSE rankLoop(source, targets, i + 1, out)

RankFind(source, targets) == rankLoop(source, targets, 1, <<>>)

discount == 64

\* The comparison function handed to slices.SortStableFunc.
rankCmp(x, y) ==
    LET xDist == x.Distance \div discount
        yDist == y.Distance \div discount
    IN  IF xDist # yDist THEN xDist - yDist
        ELSE x.OriginalIndex - y.OriginalIndex

\* A stable sort by insertion: x goes after every element not greater than it.
RECURSIVE insertRank(_, _)
insertRank(sorted, x) ==
    IF sorted = <<>> THEN <<x>>
    ELSE IF rankCmp(x, sorted[Len(sorted)]) < 0
         THEN Append(insertRank(SubSeq(sorted, 1, Len(sorted) - 1), x), sorted[Len(sorted)])
         ELSE Append(sorted, x)

RECURSIVE sortStable(_, _, _)
sortStable(ranks, i, sorted) ==
    IF i > Len(ranks) THEN sorted
    ELSE sortStable(ranks, i + 1, insertRank(sorted, ranks[i]))

fuzzyMatch(req) ==
    LET query == eliminateSpaces(req.query)
        matches == sortStable(RankFind(query, req.cmds), 1, <<>>)
    IN  IF Len(matches) > req.maxResults
        THEN IF req.maxResults < 0
             THEN Panics(req)   \* matches[:req.maxResults], slice bounds out of range
             ELSE Returns([i \in 1..req.maxResults |-> matches[i].Target], req)
        ELSE Returns([i \in 1..Len(matches) |-> matches[i].Target], req)

\* The list with prefixMatch and substringMatch swapped.
searchersSwapped ==
    <<"recent", "substringMatch", "prefixMatch", "multiPrefixMatch",
      "multiSubstringMatch", "anchoredPrefixMatch", "fuzzyMatch">>

searchers ==
    <<"recent", "prefixMatch", "substringMatch", "multiPrefixMatch",
      "multiSubstringMatch", "anchoredPrefixMatch", "fuzzyMatch">>

\* fn(ir) for the searcher of that name.
Call(name, req) ==
    CASE name = "recent" -> recent(req)
      [] name = "prefixMatch" -> prefixMatch(req)
      [] name = "substringMatch" -> substringMatch(req)
      [] name = "multiPrefixMatch" -> multiPrefixMatch(req)
      [] name = "multiSubstringMatch" -> multiSubstringMatch(req)
      [] name = "anchoredPrefixMatch" -> anchoredPrefixMatch(req)
      [] name = "fuzzyMatch" -> fuzzyMatch(req)

(***************************************************************************)
(* Server.search.  A call's local state is loc = [pc, ir, idx, results,    *)
(* seen, invoked]; srv = [cmds, lowerCmds, restoreCase] is what the        *)
(* Server's fields hold.                                                   *)
(***************************************************************************)
\* The contents of the slice ir.cmds.
View(irc, srv) ==
    SubSeq(IF irc.cmds.arr = "cmds" THEN srv.cmds ELSE srv.lowerCmds, 1, irc.cmds.len)

\* Lines 149-160 with the test of line 154 inverted.
startLocInverted(req, srv) ==
    [pc |-> "scan",
     ir |-> IF ~req.CaseSensitive
            THEN [cmds |-> [arr |-> "cmds", len |-> Len(srv.cmds)],
                  query |-> req.Query, maxResults |-> req.MaxResults]
            ELSE [cmds |-> [arr |-> "lowerCmds", len |-> Len(srv.lowerCmds)],
                  query |-> ToLower(req.Query), maxResults |-> req.MaxResults],
     idx |-> 1,
     results |-> <<>>,
     seen |-> {},
     invoked |-> <<>>]

\* Lines 149-160: ir, results and seen before the loop over searchers.
startLoc(req, srv) ==
    [pc |-> "scan",
     ir |-> IF req.CaseSensitive
            THEN [cmds |-> [arr |-> "cmds", len |-> Len(srv.cmds)],
                  query |-> req.Query, maxResults |-> req.MaxResults]
            ELSE [cmds |-> [arr |-> "lowerCmds", len |-> Len(srv.lowerCmds)],
                  query |-> ToLower(req.Query), maxResults |-> req.MaxResults],
     idx |-> 1,
     results |-> <<>>,
     seen |-> {},
     invoked |-> <<>>]

\* Lines 173-179 with the seen check left out.
RECURSIVE appendAll(_, _, _)
appendAll(cs, i, acc) ==
    IF i > Len(cs) THEN acc
    ELSE appendAll(cs, i + 1,
                   [results |-> Append(acc.results, cs[i]), seen |-> acc.seen \cup {cs[i]}])

\* Lines 173-179: append the commands not seen yet.
RECURSIVE appendNew(_, _, _)
appendNew(cs, i, acc) ==
    IF i > Len(cs) THEN acc
    ELSE IF cs[i] \in acc.seen THEN appendNew(cs, i + 1, acc)
    ELSE appendNew(cs, i + 1,
                   [results |-> Append(acc.results, cs[i]), seen |-> acc.seen \cup {cs[i]}])

\* Lines 165-180: the loop over got; fault is the panic of line 170.
RECURSIVE mergeLoop(_, _, _, _, _)
mergeLoop(got, i, caseSensitive, rc, acc) ==
    IF i > Len(got) THEN [fault |-> FALSE, results |-> acc.results, seen |-> acc.seen]
    ELSE LET out == got[i]
             originals == IF caseSensitive THEN <<out>> ELSE Lookup(rc, out)
         IN  IF Len(originals) = 0
             THEN [fault |-> TRUE, results |-> acc.results, seen |-> acc.seen]
             ELSE mergeLoop(got, i + 1, caseSensitive, rc, appendNew(originals, 1, acc))

\* Line 181 with > for >=.
budgetExceeded(res, maxResults) == Len(res) > maxResults

\* Line 181.
budgetReached(res, maxResults) == Len(res) >= maxResults

\* Line 182 returning results whole.
untruncated(res, maxResults) == res

\* Line 182, for 0 <= maxResults <= len(results).
truncated(res, maxResults) == SubSeq(res, 1, maxResults)

\* One iteration of the loop over searchers, lines 161-184, and line 186
\* after the last.
searchIter(req, loc, srv) ==
    LET name == searchers[loc.idx]
        got == Call(name, [cmds |-> View(loc.ir, srv),
                           query |-> loc.ir.query,
                           maxResults |-> loc.ir.maxResults])
        called == [loc EXCEPT !.invoked = Append(@, name),
                              !.ir.cmds.len = Len(got.cmds)]
        merged == mergeLoop(got.ret, 1, req.CaseSensitive, srv.restoreCase,
                            [results |-> loc.results, seen |-> loc.seen])
        kept == [called EXCEPT !.results = merged.results, !.seen = merged.seen]
    IN  IF got.panic THEN [called EXCEPT !.pc = "panic"]
        ELSE IF merged.fault THEN [kept EXCEPT !.pc = "fault"]
        ELSE IF budgetReached(merged.results, req.MaxResults)
             THEN IF req.MaxResults < 0
                  THEN [kept EXCEPT !.pc = "panic"]   \* results[:req.MaxResults]
                  ELSE [kept EXCEPT !.pc = "done",
                                    !.results = truncated(merged.results, req.MaxResults)]
        ELSE IF loc.idx = Len(searchers) THEN [kept EXCEPT !.pc = "done"]
        ELSE [kept EXCEPT !.idx = @ + 1]

\* recent clearing the entries it cuts off, as slices.Delete would.
backingCleared(name, req, backing) ==
    IF name = "recent" /\ req.query = <<>> /\ req.maxResults >= 0
    THEN [i \in 1..Len(backing) |-> IF i > req.maxResults THEN <<>> ELSE backing[i]]
    ELSE backing

\* What a searcher leaves in the backing array of req.cmds: none of them
\* stores through the slice (recent only reslices req.cmds).
backingAfter(name, req, backing) == backing

\* search run to its end with no other call running.
RECURSIVE runAlone(_, _, _)
runAlone(req, loc, srv) ==
    IF loc.pc = "scan" THEN runAlone(req, searchIter(req, loc, srv), srv) ELSE loc

searchAlone(req, srv) == runAlone(req, startLoc(req, srv), srv)

(***************************************************************************)
(* The inputs.                                                             *)
(***************************************************************************)
\* Command texts of history records: "a", "A", "a;", ";", "a b", "A B".
HistTexts ==
    {<<"a">>, <<"A">>, <<"a", ";">>, <<";">>, <<"a", " ", "b">>, <<"A", " ", "B">>}

\* Query texts: "", "a", "A", "b", "ab", "a b".
QueryTexts ==
    {<<>>, <<"a">>, <<"A">>, <<"b">>, <<"a", "b">>, <<"a", " ", "b">>}

Command(text) == [Command |-> text]

Hists(texts, n) == SeqsUpTo({Command(t) : t \in texts}, n)

Requests ==
    [Query : QueryTexts, CaseSensitive : BOOLEAN, MaxResults : (-1)..MaxMaxResults]

\* The concurrent runs: "a", "A", "a b" in the history, queries "" and "a".
ConcHistTexts == {<<"a">>, <<"A">>, <<"a", " ", "b">>}

ConcRequests ==
    [Query : {<<>>, <<"a">>}, CaseSensitive : BOOLEAN, MaxResults : (-1)..MaxMaxResults]

NoRequest == [Query |-> <<>>, CaseSensitive |-> FALSE, MaxResults |-> 0]

NoIr == [cmds |-> [arr |-> "cmds", len |-> 0], query |-> <<>>, maxResults |-> 0]

(***************************************************************************)
(* The state machine.                                                      *)
(***************************************************************************)
Srv == [cmds |-> cmds, lowerCmds |-> lowerCmds, restoreCase |-> restoreCase]

InitCalls ==
    /\ pc = [c \in Callers |-> "idle"]
    /\ request = [c \in Callers |-> NoRequest]
    /\ ir = [c \in Callers |-> NoIr]
    /\ idx = [c \in Callers |-> 0]
    /\ results = [c \in Callers |-> <<>>]
    /\ seen = [c \in Callers |-> {}]
    /\ invoked = [c \in Callers |-> <<>>]

InitServer ==
    /\ phase = "boot"
    /\ cmds = <<>>
    /\ lowerCmds = <<>>
    /\ restoreCase = <<>>
    /\ constructed = [cmds |-> <<>>, lowerCmds |-> <<>>, restoreCase |-> <<>>]

InitHarness ==
    /\ haystack = <<>>
    /\ needles = <<>>
    /\ fn = stringsHasPrefix
    /\ matched = <<>>

Init ==
    /\ hist \in Hists(HistTexts, MaxHist)
    /\ InitServer
    /\ InitCalls
    /\ InitHarness

InitConc ==
    /\ hist \in Hists(ConcHistTexts, MaxConcHist)
    /\ InitServer
    /\ InitCalls
    /\ InitHarness

\* newServer, lines 100-121; slices.Reverse reverses hist in place.
NewServer ==
    /\ phase = "boot"
    /\ phase' = "serving"
    /\ hist' = Reverse(hist)
    /\ cmds' = extractCmds(hist)
    /\ lowerCmds' = lowerCmdsOf(cmds')
    /\ restoreCase' = restoreCaseOf(cmds')
    /\ constructed' = [cmds |-> cmds', lowerCmds |-> lowerCmds', restoreCase |-> restoreCase']
    /\ UNCHANGED <<callVars, matchVars>>

\* A panic that nothing recovers ends the process, for every caller.
Running == \A c \in Callers : pc[c] \notin {"panic", "fault"}

SetLocal(c, loc) ==
    /\ pc' = [pc EXCEPT ![c] = loc.pc]
    /\ ir' = [ir EXCEPT ![c] = loc.ir]
    /\ idx' = [idx EXCEPT ![c] = loc.idx]
    /\ results' = [results EXCEPT ![c] = loc.results]
    /\ seen' = [seen EXCEPT ![c] = loc.seen]
    /\ invoked' = [invoked EXCEPT ![c] = loc.invoked]

Local(c) ==
    [pc |-> pc[c], ir |-> ir[c], idx |-> idx[c], results |-> results[c],
     seen |-> seen[c], invoked |-> invoked[c]]

\* handle calls srv.search(req): lines 125 and 149-160.
StartSearch(c, req) ==
    /\ phase = "serving"
    /\ Running
    /\ pc[c] = "idle"
    /\ request' = [request EXCEPT ![c] = req]
    /\ SetLocal(c, startLoc(req, Srv))
    /\ UNCHANGED <<srvVars, matchVars>>

\* One iteration of search's loop over searchers.
RunSearcher(c) ==
    /\ Running
    /\ pc[c] = "scan"
    /\ SetLocal(c, searchIter(request[c], Local(c), Srv))
    /\ LET name == searchers[idx[c]]
           req == [cmds |-> View(ir[c], Srv), query |-> ir[c].query,
                   maxResults |-> ir[c].maxResults]
       IN  IF ir[c].cmds.arr = "cmds"
           THEN /\ cmds' = backingAfter(name, req, cmds)
                /\ UNCHANGED lowerCmds
           ELSE /\ lowerCmds' = backingAfter(name, req, lowerCmds)
                /\ UNCHANGED cmds
    /\ UNCHANGED <<hist, phase, restoreCase, constructed, request, matchVars>>

\* handle returns the Response, lines 126-131; the caller may search again.
Return(c) ==
    /\ Running
    /\ pc[c] = "done"
    /\ request' = [request EXCEPT ![c] = NoRequest]
    /\ SetLocal(c, [pc |-> "idle", ir |-> NoIr, idx |-> 0, results |-> <<>>,
                    seen |-> {}, invoked |-> <<>>])
    /\ UNCHANGED <<srvVars, matchVars>>

\* main: one request after the other.
Next ==
    \/ NewServer
    \/ \E req \in Requests : StartSearch(1, req)
    \/ RunSearcher(1)
    \/ Return(1)

Spec == Init /\ [][Next]_vars

\* Several callers on the one Server.
NextConc ==
    \/ NewServer
    \/ \E c \in Callers : \E req \in ConcRequests : StartSearch(c, req)
    \/ \E c \in Callers : RunSearcher(c)
    \/ \E c \in Callers : Return(c)

SpecConc == InitConc /\ [][NextConc]_vars

(***************************************************************************)
(* matchSlices on its own: any haystack and needles over Tokens with any   *)
(* predicate on Tokens, and the rows of TestMatchSlices.                   *)
(***************************************************************************)
Tokens == {<<"a">>, <<"b">>}

\* The table of TestMatchSlices, which calls matchSlices with strings.HasPrefix.
TestMatchSlices ==
    {[needle |-> <<<<"a">>>>, haystack |-> <<<<"a">>>>, want |-> TRUE],
     [needle |-> <<<<"a">>>>, haystack |-> <<<<"b">>>>, want |-> FALSE],
     [needle |-> <<<<"a">>, <<"b">>>>, haystack |-> <<<<"a">>, <<"b">>>>, want |-> TRUE],
     [needle |-> <<<<"a">>, <<"b">>>>, haystack |-> <<<<"b">>, <<"a">>>>, want |-> FALSE],
     [needle |-> <<<<"a">>, <<"b">>>>, haystack |-> <<<<"a">>, <<"b">>, <<"c">>>>, want |-> TRUE],
     [needle |-> <<<<"a">>, <<"b">>>>, haystack |-> <<<<"a">>, <<"c">>, <<"b">>>>, want |-> TRUE],
     [needle |-> <<<<"a">>, <<"b">>>>, haystack |-> <<<<"a">>, <<"c">>, <<"d">>>>, want |-> FALSE],
     [needle |-> <<<<"a">>, <<"b">>>>,
      haystack |-> <<<<"a", "a">>, <<"b", "b">>, <<"c">>, <<"d">>>>, want |-> TRUE]}

InitMatch ==
    /\ hist = <<>>
    /\ InitServer
    /\ InitCalls
    /\ matched = <<>>
    /\ \/ /\ haystack \in SeqsUpTo(Tokens, MaxHaystack)
          /\ needles \in SeqsUpTo(Tokens, MaxNeedles)
          /\ fn \in {[kind |-> "Rel", pairs |-> P] : P \in SUBSET (Tokens \X Tokens)}
       \/ /\ \E t \in TestMatchSlices : haystack = t.haystack /\ needles = t.needle
          /\ fn = stringsHasPrefix

\* got := matchSlices(haystack, needles, fn)
CallMatchSlices ==
    /\ matched = <<>>
    /\ matched' = <<matchSlices(haystack, needles, fn)>>
    /\ UNCHANGED <<srvVars, callVars, haystack, needles, fn>>

NextMatch == CallMatchSlices

SpecMatch == InitMatch /\ [][NextMatch]_vars

(***************************************************************************)
(* The claims.                                                             *)
(***************************************************************************)
Ended(c) == pc[c] \in {"done", "panic", "fault"}

NoRepeat(s) == \A i, j \in 1..Len(s) : i # j => s[i] # s[j]

\* C1, as amended: a search with max_results >= 0 returns, and the list it
\* returns has at most max_results entries; a search with max_results < 0
\* never returns a list (it panics on a slice bound).
C1_LengthAtMostMaxResults ==
    \A c \in Callers :
        /\ pc[c] = "done" =>
              /\ request[c].MaxResults >= 0
              /\ Len(results[c]) <= request[c].MaxResults
        /\ pc[c] \in {"panic", "fault"} => request[c].MaxResults < 0

\* C1 as claimed: for any integer max_results, a search returns a list of at
\* most max_results entries.
C1_AnyIntegerMaxResults ==
    \A c \in Callers :
        Ended(c) => pc[c] = "done" /\ Len(results[c]) <= request[c].MaxResults

\* A case-insensitive search with max_results 1 whose one result has a case
\* variant in the corpus: the merged list had two entries and was cut.
C1_Witness ==
    /\ pc[1] = "done"
    /\ ~request[1].CaseSensitive
    /\ request[1].MaxResults = 1
    /\ Len(results[1]) = 1
    /\ Len(Lookup(restoreCase, ToLower(results[1][1]))) = 2

\* C2: the result list of a search, in either mode, holds no string twice.
C2_NoDuplicates == \A c \in Callers : NoRepeat(results[c])

\* A finished case-insensitive search in which several searchers ran after
\* recent and the results hold two commands with the same lowercase form.
C2_Witness ==
    /\ pc[1] = "done"
    /\ ~request[1].CaseSensitive
    /\ Len(invoked[1]) >= 3
    /\ \E i, j \in 1..Len(results[1]) :
          i # j /\ ToLower(results[1][i]) = ToLower(results[1][j])

\* The corpus with each entry followed directly by the later entries of the
\* same lowercase form: the order in which a case-insensitive search that
\* matches everything restores the corpus.
FirstOfFold(cs, i) == CHOOSE j \in 1..i :
    /\ ToLower(cs[j]) = ToLower(cs[i])
    /\ \A k \in 1..(j - 1) : ToLower(cs[k]) # ToLower(cs[i])

GroupedByFold(cs) ==
    LET n == Len(cs)
        before(i, j) == \/ FirstOfFold(cs, i) < FirstOfFold(cs, j)
                        \/ FirstOfFold(cs, i) = FirstOfFold(cs, j) /\ i < j
        perm == CHOOSE p \in [1..n -> 1..n] :
                    \A a, b \in 1..n : a < b => before(p[a], p[b])
    IN  [a \in 1..n |-> cs[perm[a]]]

FoldsDistinct(cs) == NoRepeat(lowerCmdsOf(cs))

\* C3, as amended: a search with empty query text and max_results >= 0 returns
\* the first min(max_results, len(Corpus)) entries of Corpus in Corpus order
\* when it is case-sensitive or no two Corpus entries have the same lowercase
\* form; a case-insensitive one returns in general that many first entries of
\* the Corpus regrouped so that the case variants of an entry follow it.
C3_EmptyQueryReturnsRecent ==
    \A c \in Callers :
        (pc[c] = "done" /\ request[c].Query = <<>>) =>
            LET n == Min(request[c].MaxResults, Len(cmds))
            IN  /\ request[c].CaseSensitive \/ FoldsDistinct(cmds)
                      => results[c] = SubSeq(cmds, 1, n)
                /\ ~request[c].CaseSensitive
                      => results[c] = SubSeq(GroupedByFold(cmds), 1, n)

\* C3 as claimed: in either mode the result is the first
\* min(max_results, len(Corpus)) entries of Corpus.  (Stated for a Corpus
\* without the empty string, so that the entry C4 is about plays no part.)
C3_FirstEntriesInEitherMode ==
    \A c \in Callers :
        (/\ pc[c] = "done"
         /\ request[c].Query = <<>>
         /\ request[c].MaxResults >= 0
         /\ \A i \in 1..Len(cmds) : cmds[i] # <<>>) =>
            results[c] = SubSeq(cmds, 1, Min(request[c].MaxResults, Len(cmds)))

\* An empty case-insensitive query answered with fewer entries than the
\* corpus has, from a corpus that holds a command in two casings.
C3_Witness ==
    /\ pc[1] = "done"
    /\ request[1].Query = <<>>
    /\ ~request[1].CaseSensitive
    /\ ~FoldsDistinct(cmds)
    /\ Len(results[1]) = 2
    /\ Len(cmds) = 3

\* C4 as claimed: the Corpus newServer builds never holds the empty string.
C4_NoEmptyCommand ==
    phase = "serving" => \A i \in 1..Len(cmds) : cmds[i] # <<>>

\* The history as it was handed to newServer, which reversed it in place.
Input == Reverse(hist)

LastOccurrence(cmd) ==
    CHOOSE k \in 1..Len(Input) :
        /\ normalize(Input[k].Command) = cmd
        /\ \A m \in (k + 1)..Len(Input) : normalize(Input[m].Command) # cmd

\* C5: the Corpus holds each normalized command of the input once, and A comes
\* before B in it exactly when A's last occurrence in the input is the later.
C5_MostRecentFirst ==
    phase = "serving" =>
        /\ NoRepeat(cmds)
        /\ Range(cmds) = {normalize(Input[k].Command) : k \in 1..Len(Input)}
        /\ \A i, j \in 1..Len(cmds) :
              i < j <=> LastOccurrence(cmds[i]) > LastOccurrence(cmds[j])

\* A history x, y, x' whose first and last records differ as texts and
\* normalize to the same command: the corpus is that command, then y.
C5_Witness ==
    /\ phase = "serving"
    /\ Len(Input) = 3
    /\ Input[1].Command # Input[3].Command
    /\ normalize(Input[1].Command) = normalize(Input[3].Command)
    /\ Len(cmds) = 2
    /\ cmds[1] = normalize(Input[3].Command)

\* Whether strictly increasing haystack positions exist, one per needle, with
\* the predicate true of each pair.
ExistsAssignment(hay, ns, f) ==
    \E pos \in [1..Len(ns) -> 1..Len(hay)] :
        /\ \A j \in 1..(Len(ns) - 1) : pos[j] < pos[j + 1]
        /\ \A j \in 1..Len(ns) : Apply(f, hay[pos[j]], ns[j])

\* C6: matchSlices is true exactly when such an assignment exists (so true for
\* no needles, false for more needles than haystack entries), and gives what
\* each row of TestMatchSlices wants.
C6_GreedyIsExact ==
    matched # <<>> =>
        /\ matched[1] <=> ExistsAssignment(haystack, needles, fn)
        /\ needles = <<>> => matched[1]
        /\ Len(needles) > Len(haystack) => ~matched[1]
        /\ \A t \in TestMatchSlices :
              (haystack = t.haystack /\ needles = t.needle /\ fn = stringsHasPrefix)
                  => matched[1] = t.want

\* A match of two needles in a three-entry haystack whose first entry
\* satisfies both needles and whose second satisfies neither.
C6_Witness ==
    /\ matched = <<TRUE>>
    /\ Len(needles) = 2
    /\ Len(haystack) = 3
    /\ Apply(fn, haystack[1], needles[1])
    /\ Apply(fn, haystack[1], needles[2])
    /\ ~Apply(fn, haystack[2], needles[1])
    /\ ~Apply(fn, haystack[2], needles[2])

\* C7: lowerCmds[i] is the lowercase of cmds[i] at every index, every entry of
\* lowerCmds has a non-empty restoreCase entry, and no search reaches the
\* panic of line 170.
C7_RestoreNeverFails ==
    /\ phase = "serving" =>
          /\ Len(lowerCmds) = Len(cmds)
          /\ \A i \in 1..Len(cmds) :
                /\ lowerCmds[i] = ToLower(cmds[i])
                /\ Len(Lookup(restoreCase, lowerCmds[i])) > 0
    /\ \A c \in Callers : pc[c] # "fault"

\* A case-insensitive search that ran all seven searchers and returned a
\* command that is not its own lowercase form.
C7_Witness ==
    /\ pc[1] = "done"
    /\ ~request[1].CaseSensitive
    /\ Len(invoked[1]) = 7
    /\ \E i \in 1..Len(results[1]) : results[1][i] # ToLower(results[1][i])

\* C8: with several searches interleaved, the Server's fields stay as newServer
\* built them, and every search that ends, ends as it does when run alone, with
\* the same result list and the same seen set.
C8_ConcurrentSearchesIndependent ==
    /\ phase = "serving" => Srv = constructed
    /\ \A c \in Callers :
          Ended(c) =>
              LET alone == searchAlone(request[c], constructed)
              IN  /\ pc[c] = alone.pc
                  /\ results[c] = alone.results
                  /\ seen[c] = alone.seen

\* Two searches on the same array, both finished, one of which had recent cut
\* its view while the other's view is longer.
C8_Witness ==
    /\ pc[1] = "done"
    /\ pc[2] = "done"
    /\ ir[1].cmds.arr = ir[2].cmds.arr
    /\ ir[1].cmds.len < ir[2].cmds.len
    /\ Len(results[2]) > ir[1].cmds.len

\* The order of the cascade.
CascadeOrder ==
    <<"recent", "prefixMatch", "substringMatch", "multiPrefixMatch",
      "multiSubstringMatch", "anchoredPrefixMatch", "fuzzyMatch">>

\* The searchers called are the first ones of the cascade, in its order; none
\* is called once the list has reached max_results; a search is done either
\* with exactly max_results entries or after fuzzyMatch with fewer.
CascadeRuns(c) ==
    /\ invoked[c] = SubSeq(CascadeOrder, 1, Len(invoked[c]))
    /\ pc[c] = "scan" =>
          /\ Len(invoked[c]) = idx[c] - 1
          /\ idx[c] > 1 => Len(results[c]) < request[c].MaxResults
    /\ pc[c] = "done" =>
          /\ Len(invoked[c]) >= 1
          /\ \/ Len(results[c]) = request[c].MaxResults
             \/ /\ Len(invoked[c]) = Len(CascadeOrder)
                /\ Len(results[c]) < request[c].MaxResults

\* C9, as amended: for max_results >= 0 the cascade runs as claimed; a search
\* with max_results < 0 calls recent only and panics, it is never done.
C9_CascadeForNonNegativeMax ==
    \A c \in Callers :
        /\ CascadeRuns(c)
        /\ request[c].MaxResults >= 0 => pc[c] \notin {"panic", "fault"}
        /\ request[c].MaxResults < 0 => pc[c] # "done" /\ Len(invoked[c]) <= 1

\* C9 as claimed: the cascade runs so for every search, which ends done.
C9_CascadeForAnyMax ==
    \A c \in Callers : CascadeRuns(c) /\ pc[c] \notin {"panic", "fault"}

\* A search that found nothing until anchoredPrefixMatch filled the list, and
\* stopped there without calling fuzzyMatch.
C9_Witness ==
    /\ pc[1] = "done"
    /\ invoked[1] = SubSeq(CascadeOrder, 1, 6)
    /\ request[1].MaxResults = 1
    /\ Len(results[1]) = 1

\* The array a call's view is a slice of.
Backing(c) == IF ir[c].cmds.arr = "cmds" THEN cmds ELSE lowerCmds

====
